---- MODULE Spec2Model ----
(***************************************************************************)
(* Model of scripts/generate-design-py.js: generateDesignPy turns a        *)
(* configuration document (a list of block descriptors) into the text of   *)
(* design.py.  JavaScript strings that the code searches with              *)
(* String.includes are sequences of one-character strings, so that a       *)
(* substring test is a real substring test.  The generated text is kept    *)
(* section by section: the import lines, the interface strings, the        *)
(* memory-map assignments and the instantiation fragments.                 *)
(***************************************************************************)
EXTENDS Integers, Sequences, FiniteSets, TLC

VARIABLES pc, designData, digitalBlocks, processors, memory, io, other, designPy

vars == <<pc, designData, digitalBlocks, processors, memory, io, other, designPy>>

\* Bounds of the input documents.
MaxBlocks == 2
MaxCount == 2

(***************************************************************************)
(* JavaScript helpers                                                      *)
(***************************************************************************)

\* String.prototype.includes
Includes(s, sub) ==
    \E i \in 1..(Len(s) - Len(sub) + 1) : SubSeq(s, i, i + Len(sub) - 1) = sub

\* `${n}` for a non-negative integer n
RECURSIVE Dec(_)
Dec(n) ==
    LET d == <<"0","1","2","3","4","5","6","7","8","9">>[(n % 10) + 1]
    IN  IF n < 10 THEN <<d>> ELSE Dec(n \div 10) \o <<d>>

\* v || d for an optional number: an absent field (undefined) and 0 are both
\* falsy and are both written 0 here.
OrDefault(v, d) == IF v = 0 THEN d ELSE v

\* truthiness of an optional boolean field
Truthy(v) == v = "true"

\* Array.prototype.some over the block ids
SomeId(blocks, kw) == \E i \in 1..Len(blocks) : Includes(blocks[i].id, kw)

\* Array.prototype.includes
ArrIncludes(arr, x) == \E i \in 1..Len(arr) : arr[i] = x

\* Set.prototype.add on an insertion-ordered Set kept as a sequence
SetAdd(s, x) == IF ArrIncludes(s, x) THEN s ELSE Append(s, x)

\* new Set(array)
RECURSIVE NewSet(_)
NewSet(arr) ==
    IF arr = <<>> THEN <<>>
    ELSE SetAdd(NewSet(SubSeq(arr, 1, Len(arr) - 1)), arr[Len(arr)])

(***************************************************************************)
(* Keywords matched against block ids                                      *)
(***************************************************************************)
KwCv32e40p == <<"c","v","3","2","e","4","0","p">>
KwMinerva  == <<"m","i","n","e","r","v","a">>
KwSram     == <<"s","r","a","m">>
KwQspi     == <<"q","s","p","i">>
KwHyperram == <<"h","y","p","e","r","r","a","m">>
KwGpio     == <<"g","p","i","o">>
KwUart     == <<"u","a","r","t">>
KwSpi      == <<"s","p","i">>
KwI2c      == <<"i","2","c">>

(***************************************************************************)
(* Input documents                                                         *)
(***************************************************************************)

\* Ids whose blocks are read only for their id.
PlainIds == { <<"c","v","3","2","e","4","0","p","_","c","o","r","e">>, <<"m","i","n","e","r","v","a">>, <<"s","r","a","m">>, <<"h","y","p","e","r","r","a","m">>, <<"t","i","m","e","r">> }

\* Ids of IO blocks, for which count is read as well.
CountedIds == { <<"u","a","r","t","0">>, <<"s","p","i">>, <<"i","2","c">>, <<"q","s","p","i">>, <<"u","a","r","t","_","s","p","i">> }

\* Ids of GPIO blocks, for which count and bitSize are read.
SizedIds == { <<"g","p","i","o","_","b","l","o","c","k">> }

\* count: absent, 1 and the largest count.
Counts == {0, 1, MaxCount}

BitSizes == {0, 4}

\* The blocks that pass the filter of the list they are in: every field the
\* code reads of them varies.
KeptBlocks(type, enabled) ==
    [id : PlainIds, type : {type}, enabled : {enabled}, count : {0}, bitSize : {0}]
    \cup [id : CountedIds, type : {type}, enabled : {enabled}, count : Counts, bitSize : {0}]
    \cup [id : SizedIds, type : {type}, enabled : {enabled}, count : Counts, bitSize : BitSizes]

\* A block the filter drops: the code reads its type or enabled field only.
DroppedBlocks(type, enabled) ==
    [id : {<<"u","a","r","t","0">>}, type : {type}, enabled : {enabled}, count : {0}, bitSize : {0}]

\* Entries of an enabledBlocks list (configurator export).
EnabledEntries == KeptBlocks("digital", "undefined") \cup DroppedBlocks("analog", "undefined")

\* Entries of a digitalBlocks list (test files).
DigitalEntries == KeptBlocks("undefined", "true") \cup DroppedBlocks("undefined", "false")

Absent == [present |-> FALSE, list |-> <<>>]

Present(l) == [present |-> TRUE, list |-> l]

\* A list field holding n entries of S; a field holding none is absent
\* (undefined or null) or the empty array.
Fields(S, n) ==
    { Present(l) : l \in [1..n -> S] } \cup (IF n = 0 THEN {Absent} ELSE {})

\* The documents: both list fields in every combination, at most MaxBlocks
\* entries in the two lists together.
Documents ==
    UNION { [enabledBlocks : Fields(EnabledEntries, n[1]),
             digitalBlocks : Fields(DigitalEntries, n[2])] :
            n \in { m \in (0..MaxBlocks) \X (0..MaxBlocks) : m[1] + m[2] <= MaxBlocks } }

(***************************************************************************)
(* Block selection and classification                                      *)
(***************************************************************************)

AllBlocks(d) ==
    IF d.enabledBlocks.present THEN d.enabledBlocks.list
    ELSE IF d.digitalBlocks.present THEN d.digitalBlocks.list
    ELSE <<>>

\* Variant: the type filter of the configurator shape is left out.
DigitalBlocks_Unfiltered(d) ==
    IF d.enabledBlocks.present
    THEN AllBlocks(d)
    ELSE SelectSeq(AllBlocks(d), LAMBDA block : Truthy(block.enabled))

\* Variant: the two shapes are merged.
DigitalBlocks_Merged(d) ==
    SelectSeq(d.enabledBlocks.list, LAMBDA block : block.type = "digital")
    \o SelectSeq(d.digitalBlocks.list, LAMBDA block : Truthy(block.enabled))

DigitalBlocks(d) ==
    IF d.enabledBlocks.present
    THEN SelectSeq(AllBlocks(d), LAMBDA block : block.type = "digital")
    ELSE SelectSeq(AllBlocks(d), LAMBDA block : Truthy(block.enabled))

Processors(db) ==
    SelectSeq(db, LAMBDA block :
        Includes(block.id, KwCv32e40p) \/ Includes(block.id, KwMinerva))

\* Variant: the last processor block is the CPU.
CpuIncludes_Last(procs, kw) == Len(procs) > 0 /\ Includes(procs[Len(procs)].id, kw)

\* const cpu = processors[0]; cpu?.id.includes(kw)
CpuIncludes(procs, kw) == Len(procs) > 0 /\ Includes(procs[1].id, kw)

Memory(db) ==
    SelectSeq(db, LAMBDA block :
        Includes(block.id, KwSram) \/ Includes(block.id, KwQspi)
        \/ Includes(block.id, KwHyperram))

Io(db) ==
    SelectSeq(db, LAMBDA block :
        Includes(block.id, KwGpio) \/ Includes(block.id, KwUart)
        \/ Includes(block.id, KwSpi) \/ Includes(block.id, KwI2c))

Other(db, procs, mem, ios) ==
    SelectSeq(db, LAMBDA block :
        ~ArrIncludes(procs, block) /\ ~ArrIncludes(mem, block) /\ ~ArrIncludes(ios, block))

(***************************************************************************)
(* Imports: one record per line, "from <module> import <names>"; the empty *)
(* line is the record with an empty module.                                *)
(***************************************************************************)

ImportLine(module, names) == [module |-> module, names |-> names]

BlankLine == ImportLine("", <<>>)

PushIf(cond, arr, x) == IF cond THEN Append(arr, x) ELSE arr

AddIf(cond, s, x) == IF cond THEN SetAdd(s, x) ELSE s

FixedImports ==
    NewSet(<< ImportLine("pathlib", <<"Path">>),
              BlankLine,
              ImportLine("amaranth", <<"Module">>),
              ImportLine("amaranth.lib", <<"wiring">>),
              ImportLine("amaranth.lib.wiring", <<"Out", "flipped", "connect">>),
              BlankLine,
              ImportLine("amaranth_soc", <<"csr", "wishbone">>),
              ImportLine("amaranth_soc.csr.wishbone", <<"WishboneCSRBridge">>),
              BlankLine,
              ImportLine("chipflow_digital_ip.base", <<"SoCID">>) >>)

SramImport == ImportLine("amaranth_soc.wishbone.sram", <<"WishboneSRAM">>)

MemoryImports(s, mem) ==
    LET s1 == AddIf(SomeId(mem, KwQspi), s,
                    ImportLine("chipflow_digital_ip.memory", <<"QSPIFlash">>))
        s2 == AddIf(SomeId(mem, KwHyperram), s1,
                    ImportLine("chipflow_digital_ip.memory", <<"HyperRAM">>))
    IN  AddIf(SomeId(mem, KwSram) \/ Len(mem) = 0, s2, SramImport)

IoImports(s, ios) ==
    LET a1 == PushIf(SomeId(ios, KwGpio), <<>>, "GPIOPeripheral")
        a2 == PushIf(SomeId(ios, KwUart), a1, "UARTPeripheral")
        a3 == PushIf(SomeId(ios, KwSpi), a2, "SPIPeripheral")
        ioImports == PushIf(SomeId(ios, KwI2c), a3, "I2CPeripheral")
    IN  AddIf(Len(ioImports) > 0, s, ImportLine("chipflow_digital_ip.io", ioImports))

ProcessorImports(s, procs) ==
    IF CpuIncludes(procs, KwCv32e40p)
    THEN SetAdd(s, ImportLine("chipflow_digital_ip.processors",
                              <<"CV32E40P", "OBIDebugModule">>))
    ELSE IF CpuIncludes(procs, KwMinerva)
    THEN SetAdd(s, ImportLine("minerva.core", <<"Minerva">>))
    ELSE s

PlatformImports(s, procs, mem, ios) ==
    LET p1 == PushIf(SomeId(ios, KwGpio), <<"attach_data", "SoftwareBuild">>, "GPIOSignature")
        p2 == PushIf(SomeId(ios, KwUart), p1, "UARTSignature")
        p3 == PushIf(SomeId(ios, KwSpi), p2, "SPISignature")
        p4 == PushIf(SomeId(ios, KwI2c), p3, "I2CSignature")
        p5 == PushIf(SomeId(mem, KwQspi), p4, "QSPIFlashSignature")
        platformImports == PushIf(CpuIncludes(procs, KwCv32e40p), p5, "JTAGSignature")
    IN  SetAdd(s, ImportLine("chipflow_lib.platforms", platformImports))

Imports(procs, mem, ios) ==
    PlatformImports(
        ProcessorImports(IoImports(MemoryImports(FixedImports, mem), ios), procs),
        procs, mem, ios)

(***************************************************************************)
(* Interface list: the strings pushed to `interfaces`                      *)
(***************************************************************************)

FlashIface == <<"\"","f","l","a","s","h","\"",":"," ","O","u","t","(","Q","S","P","I","F","l","a","s","h","S","i","g","n","a","t","u","r","e","(",")",")">>

JtagIface == <<"\"","c","p","u","_","j","t","a","g","\"",":"," ","O","u","t","(","J","T","A","G","S","i","g","n","a","t","u","r","e","(",")",")">>

GpioIface(i, bitSize) ==
    <<"\"","g","p","i","o","_">> \o Dec(i) \o <<"\"",":"," ","O","u","t","(","G","P","I","O","S","i","g","n","a","t","u","r","e","(","p","i","n","_","c","o","u","n","t","=">>
    \o Dec(OrDefault(bitSize, 8)) \o <<")",")">>

UartIface(i) == <<"\"","u","a","r","t","_">> \o Dec(i) \o <<"\"",":"," ","O","u","t","(","U","A","R","T","S","i","g","n","a","t","u","r","e","(",")",")">>

SpiIface(i) == <<"\"","s","p","i","_">> \o Dec(i) \o <<"\"",":"," ","O","u","t","(","S","P","I","S","i","g","n","a","t","u","r","e","(",")",")">>

I2cIface(i) == <<"\"","i","2","c","_">> \o Dec(i) \o <<"\"",":"," ","O","u","t","(","I","2","C","S","i","g","n","a","t","u","r","e","(",")",")">>

\* The body of io.forEach at the interface list: one block's interfaces
\* appended to the list so far.
PushIoInterfaces(interfaces, block) ==
    LET count == OrDefault(block.count, 1)
        bitSize == OrDefault(block.bitSize, IF Includes(block.id, KwGpio) THEN 8 ELSE 0)
        startIndex == Len(SelectSeq(interfaces, LAMBDA iface : Includes(iface, <<"s","p","i","_">>)))
    IN  IF Includes(block.id, KwGpio)
        THEN interfaces \o [i \in 1..count |-> GpioIface(i - 1, bitSize)]
        ELSE IF Includes(block.id, KwUart)
        THEN interfaces \o [i \in 1..count |-> UartIface(i - 1)]
        ELSE IF Includes(block.id, KwSpi)
        THEN interfaces \o [i \in 1..count |-> SpiIface(startIndex + i - 1)]
        ELSE IF Includes(block.id, KwI2c)
        THEN interfaces \o [i \in 1..count |-> I2cIface(i - 1)]
        ELSE interfaces

RECURSIVE ForEachIoInterface(_, _)
ForEachIoInterface(interfaces, ios) ==
    IF ios = <<>> THEN interfaces
    ELSE ForEachIoInterface(PushIoInterfaces(interfaces, Head(ios)), Tail(ios))

Interfaces(procs, mem, ios) ==
    LET i1 == PushIf(SomeId(mem, KwQspi), <<>>, FlashIface)
        i2 == PushIf(CpuIncludes(procs, KwCv32e40p), i1, JtagIface)
    IN  ForEachIoInterface(i2, ios)

(***************************************************************************)
(* Memory map: the assignments self.<sym> = 0x<val>, a value being its     *)
(* eight hexadecimal digits                                                *)
(***************************************************************************)

Assign(sym, val) == [sym |-> sym, val |-> val]

\* Variant: the SPI CSR region is put at the address of the SoC ID region.
MemoryMap_SpiAtSocId(mem, ios) ==
    LET m1 == << Assign("mem_spiflash_base", <<0,0,0,0,0,0,0,0>>),
                 Assign("mem_sram_base",     <<1,0,0,0,0,0,0,0>>),
                 Assign("debug_base",        <<10,0,0,0,0,0,0,0>>),
                 Assign("csr_base",          <<11,0,0,0,0,0,0,0>>) >>
        m2 == PushIf(SomeId(mem, KwQspi), m1,
                     Assign("csr_spiflash_base", <<11,0,0,0,0,0,0,0>>))
        m3 == m2 \o << Assign("csr_gpio_base",   <<11,1,0,0,0,0,0,0>>),
                       Assign("csr_uart_base",   <<11,2,0,0,0,0,0,0>>),
                       Assign("csr_soc_id_base", <<11,4,0,0,0,0,0,0>>) >>
        m4 == PushIf(SomeId(ios, KwSpi), m3,
                     Assign("csr_spi_base", <<11,4,0,0,0,0,0,0>>))
        m5 == PushIf(SomeId(ios, KwI2c), m4,
                     Assign("csr_i2c_base", <<11,6,0,0,0,0,0,0>>))
    IN  m5 \o << Assign("periph_offset", <<0,0,1,0,0,0,0,0>>),
                 Assign("sram_size",     <<0,0,0,0,0,8,0,0>>),
                 Assign("bios_start",    <<0,0,1,0,0,0,0,0>>) >>

\* Variant: csr_spi_base is emitted for SPI blocks other than QSPI only.
MemoryMap_SpiNotQspi(mem, ios) ==
    LET m1 == << Assign("mem_spiflash_base", <<0,0,0,0,0,0,0,0>>),
                 Assign("mem_sram_base",     <<1,0,0,0,0,0,0,0>>),
                 Assign("debug_base",        <<10,0,0,0,0,0,0,0>>),
                 Assign("csr_base",          <<11,0,0,0,0,0,0,0>>) >>
        m2 == PushIf(SomeId(mem, KwQspi), m1,
                     Assign("csr_spiflash_base", <<11,0,0,0,0,0,0,0>>))
        m3 == m2 \o << Assign("csr_gpio_base",   <<11,1,0,0,0,0,0,0>>),
                       Assign("csr_uart_base",   <<11,2,0,0,0,0,0,0>>),
                       Assign("csr_soc_id_base", <<11,4,0,0,0,0,0,0>>) >>
        m4 == PushIf(\E i \in 1..Len(ios) :
                        Includes(ios[i].id, KwSpi) /\ ~Includes(ios[i].id, KwQspi), m3,
                     Assign("csr_spi_base", <<11,5,0,0,0,0,0,0>>))
        m5 == PushIf(SomeId(ios, KwI2c), m4,
                     Assign("csr_i2c_base", <<11,6,0,0,0,0,0,0>>))
    IN  m5 \o << Assign("periph_offset", <<0,0,1,0,0,0,0,0>>),
                 Assign("sram_size",     <<0,0,0,0,0,8,0,0>>),
                 Assign("bios_start",    <<0,0,1,0,0,0,0,0>>) >>

MemoryMap(mem, ios) ==
    LET m1 == << Assign("mem_spiflash_base", <<0,0,0,0,0,0,0,0>>),
                 Assign("mem_sram_base",     <<1,0,0,0,0,0,0,0>>),
                 Assign("debug_base",        <<10,0,0,0,0,0,0,0>>),
                 Assign("csr_base",          <<11,0,0,0,0,0,0,0>>) >>
        m2 == PushIf(SomeId(mem, KwQspi), m1,
                     Assign("csr_spiflash_base", <<11,0,0,0,0,0,0,0>>))
        m3 == m2 \o << Assign("csr_gpio_base",   <<11,1,0,0,0,0,0,0>>),
                       Assign("csr_uart_base",   <<11,2,0,0,0,0,0,0>>),
                       Assign("csr_soc_id_base", <<11,4,0,0,0,0,0,0>>) >>
        m4 == PushIf(SomeId(ios, KwSpi), m3,
                     Assign("csr_spi_base", <<11,5,0,0,0,0,0,0>>))
        m5 == PushIf(SomeId(ios, KwI2c), m4,
                     Assign("csr_i2c_base", <<11,6,0,0,0,0,0,0>>))
    IN  m5 \o << Assign("periph_offset", <<0,0,1,0,0,0,0,0>>),
                 Assign("sram_size",     <<0,0,0,0,0,8,0,0>>),
                 Assign("bios_start",    <<0,0,1,0,0,0,0,0>>) >>

(***************************************************************************)
(* Instantiation fragments.  A fragment is the text that instantiates one  *)
(* module: name is the submodule, cls the class called, pin_count its      *)
(* pin_count argument (0: none), addr the base symbol and the instance     *)
(* index of its decoder address, inline the import lines inside the        *)
(* fragment, uses the memory-map symbols it reads and connects the         *)
(* external interfaces self.<name> it wires.                               *)
(***************************************************************************)

Fragment(name, cls, pin_count, addr, inline, uses, connects) ==
    [name |-> name, cls |-> cls, pin_count |-> pin_count, addr |-> addr,
     inline |-> inline, uses |-> uses, connects |-> connects]

NoAddr == <<"", 0>>

CpuCode(procs) ==
    IF CpuIncludes(procs, KwCv32e40p)
    THEN << Fragment(<<"c","p","u">>, "CV32E40P", 0, NoAddr, <<>>,
                     {"bios_start", "debug_base"}, {}),
            Fragment(<<"d","e","b","u","g">>, "OBIDebugModule", 0, <<"debug_base", 0>>, <<>>,
                     {"debug_base"}, {<<"c","p","u","_","j","t","a","g">>}) >>
    ELSE IF CpuIncludes(procs, KwMinerva)
    THEN << Fragment(<<"c","p","u">>, "Minerva", 0, NoAddr, <<>>, {"bios_start"}, {}) >>
    ELSE <<>>

MemoryCode(mem) ==
    PushIf(SomeId(mem, KwQspi), <<>>,
           Fragment(<<"s","p","i","f","l","a","s","h">>, "QSPIFlash", 0, <<"csr_spiflash_base", 0>>, <<>>,
                    {"mem_spiflash_base", "csr_spiflash_base", "csr_base"}, {<<"f","l","a","s","h">>}))
    \o << Fragment(<<"s","r","a","m">>, "WishboneSRAM", 0, <<"mem_sram_base", 0>>, <<SramImport>>,
                   {"sram_size", "mem_sram_base"}, {}) >>

GpioCode(ios) ==
    LET gpioBlocks == SelectSeq(ios, LAMBDA b : Includes(b.id, KwGpio))
    IN  [k \in 1..Len(gpioBlocks) |->
            LET index == k - 1
                bitSize == OrDefault(gpioBlocks[k].bitSize, 8)
            IN  Fragment(<<"g","p","i","o","_">> \o Dec(index), "GPIOPeripheral", bitSize,
                         <<"csr_gpio_base", index>>, <<>>,
                         {"csr_gpio_base", "periph_offset", "csr_base"},
                         {<<"g","p","i","o","_">> \o Dec(index)})]

UartCode(ios) ==
    LET uartBlocks == SelectSeq(ios, LAMBDA b : Includes(b.id, KwUart))
    IN  [k \in 1..Len(uartBlocks) |->
            LET index == k - 1
            IN  Fragment(<<"u","a","r","t","_">> \o Dec(index), "UARTPeripheral", 0,
                         <<"csr_uart_base", index>>, <<>>,
                         {"csr_uart_base", "periph_offset", "csr_base"},
                         {<<"u","a","r","t","_">> \o Dec(index)})]

\* The body of spiBlocks.forEach: one block's fragments, from the running spiIndex.
SpiFragments(spiIndex, block) ==
    LET count == OrDefault(block.count, 1)
    IN  [i \in 1..count |->
            Fragment(<<"s","p","i","_">> \o Dec(spiIndex + i - 1), "SPIPeripheral", 0,
                     <<"csr_spi_base", spiIndex + i - 1>>, <<>>,
                     {"csr_spi_base", "periph_offset", "csr_base"},
                     {<<"s","p","i","_">> \o Dec(spiIndex + i - 1)})]

RECURSIVE ForEachSpiBlock(_, _, _)
ForEachSpiBlock(code, spiIndex, spiBlocks) ==
    IF spiBlocks = <<>> THEN code
    ELSE LET frags == SpiFragments(spiIndex, Head(spiBlocks))
         IN  ForEachSpiBlock(code \o frags, spiIndex + Len(frags), Tail(spiBlocks))

SpiCode(ios) ==
    ForEachSpiBlock(<<>>, 0, SelectSeq(ios, LAMBDA b : Includes(b.id, KwSpi)))

I2cCode(ios) ==
    LET i2cBlocks == SelectSeq(ios, LAMBDA b : Includes(b.id, KwI2c))
    IN  [k \in 1..Len(i2cBlocks) |->
            LET index == k - 1
            IN  Fragment(<<"i","2","c","_">> \o Dec(index), "I2CPeripheral", 0,
                         <<"csr_i2c_base", index>>, <<>>,
                         {"csr_i2c_base", "periph_offset", "csr_base"},
                         {<<"i","2","c","_">> \o Dec(index)})]

IoCode(ios) == GpioCode(ios) \o UartCode(ios) \o SpiCode(ios) \o I2cCode(ios)

\* The fixed tail of elaborate: SoC ID, Wishbone-CSR bridge, software build and
\* the attach_data call that is emitted with a QSPI block.
Boilerplate(mem) ==
    << Fragment(<<"s","o","c","_","i","d">>, "SoCID", 0, <<"csr_soc_id_base", 0>>, <<>>,
                {"csr_soc_id_base", "csr_base"}, {}),
       Fragment(<<"w","b","_","t","o","_","c","s","r">>, "WishboneCSRBridge", 0, <<"csr_base", 0>>, <<>>,
                {"csr_base"}, {}),
       Fragment(<<"s","w">>, "SoftwareBuild", 0, NoAddr, <<>>, {"bios_start"}, {}) >>
    \o (IF SomeId(mem, KwQspi)
        THEN << Fragment(<<"a","t","t","a","c","h","_","d","a","t","a">>, "attach_data", 0, NoAddr, <<>>, {}, {<<"f","l","a","s","h">>}) >>
        ELSE <<>>)

\* The returned text, section by section in the order of the template.
DesignPy(procs, mem, ios) ==
    [imports    |-> Imports(procs, mem, ios),
     interfaces |-> Interfaces(procs, mem, ios),
     memoryMap  |-> MemoryMap(mem, ios),
     cpuCode    |-> CpuCode(procs),
     memoryCode |-> MemoryCode(mem),
     ioCode     |-> IoCode(ios),
     boilerplate |-> Boilerplate(mem)]

NoText ==
    [imports |-> <<>>, interfaces |-> <<>>, memoryMap |-> <<>>, cpuCode |-> <<>>,
     memoryCode |-> <<>>, ioCode |-> <<>>, boilerplate |-> <<>>]

(***************************************************************************)
(* The state machine: a document is handed to generateDesignPy, which      *)
(* returns the text.                                                       *)
(***************************************************************************)

Init ==
    /\ pc = "start"
    /\ designData \in Documents
    /\ digitalBlocks = <<>>
    /\ processors = <<>>
    /\ memory = <<>>
    /\ io = <<>>
    /\ other = <<>>
    /\ designPy = NoText

generateDesignPy ==
    /\ pc = "start"
    /\ digitalBlocks' = DigitalBlocks(designData)
    /\ processors' = Processors(digitalBlocks')
    /\ memory' = Memory(digitalBlocks')
    /\ io' = Io(digitalBlocks')
    /\ other' = Other(digitalBlocks', processors', memory', io')
    /\ designPy' = DesignPy(processors', memory', io')
    /\ pc' = "done"
    /\ UNCHANGED designData

Next == generateDesignPy

Spec == Init /\ [][Next]_vars

(***************************************************************************)
(* Reading the returned text                                               *)
(***************************************************************************)

Done == pc = "done"

\* The name declared by an interface string: the text between its first two quotes.
IfaceName(iface) ==
    LET q == CHOOSE k \in 2..Len(iface) :
                 /\ iface[k] = "\""
                 /\ \A j \in 2..(k - 1) : iface[j] # "\""
    IN  SubSeq(iface, 2, q - 1)

DeclaredNames == [k \in 1..Len(designPy.interfaces) |-> IfaceName(designPy.interfaces[k])]

AllFragments ==
    designPy.cpuCode \o designPy.memoryCode \o designPy.ioCode \o designPy.boilerplate

MapSyms == { designPy.memoryMap[k].sym : k \in 1..Len(designPy.memoryMap) }

\* <kind>_<index>
IndexedName(kw, i) == kw \o <<"_">> \o Dec(i)

IsOfKind(name, kw) ==
    Len(name) > Len(kw) + 1 /\ SubSeq(name, 1, Len(kw) + 1) = kw \o <<"_">>

\* The declared names, and the fragment names, of one IO kind, in text order.
DeclaredOfKind(kw) == SelectSeq(DeclaredNames, LAMBDA n : IsOfKind(n, kw))

FragmentsOfKind(kw) ==
    LET sel == SelectSeq(designPy.ioCode, LAMBDA f : IsOfKind(f.name, kw))
    IN  [k \in 1..Len(sel) |-> sel[k].name]

Range(s) == { s[k] : k \in 1..Len(s) }

IoKinds == {KwGpio, KwUart, KwSpi, KwI2c}

\* The number of lines of the whole text that import the name cls.
ImportCount(cls) ==
    Cardinality({ k \in 1..Len(designPy.imports) :
                    cls \in Range(designPy.imports[k].names) })
    + Cardinality({ p \in { <<k, l>> : k \in 1..Len(AllFragments), l \in 1..MaxBlocks } :
                    /\ p[2] <= Len(AllFragments[p[1]].inline)
                    /\ cls \in Range(AllFragments[p[1]].inline[p[2]].names) })

Imported(cls) == ImportCount(cls) > 0

(***************************************************************************)
(* C1: memory-map base addresses                                           *)
(***************************************************************************)

BaseSyms ==
    {"mem_spiflash_base", "mem_sram_base", "debug_base", "csr_base", "csr_gpio_base",
     "csr_uart_base", "csr_soc_id_base", "csr_spiflash_base", "csr_spi_base",
     "csr_i2c_base"}

BaseEntries == { k \in 1..Len(designPy.memoryMap) : designPy.memoryMap[k].sym \in BaseSyms }

C2_CountInterfacesAndFragments ==
    Done => \A kw \in IoKinds : \A b \in 1..Len(digitalBlocks) :
        ( /\ Includes(digitalBlocks[b].id, kw)
          /\ \A c \in 1..Len(digitalBlocks) :
                c # b => ~Includes(digitalBlocks[c].id, kw)
          /\ \A ow \in IoKinds \ {kw} : ~Includes(digitalBlocks[b].id, ow) )
        => LET N == OrDefault(digitalBlocks[b].count, 1)
               expected == [i \in 1..N |-> IndexedName(kw, i - 1)]
           IN  /\ DeclaredOfKind(kw) = expected
               /\ FragmentsOfKind(kw) = expected

(***************************************************************************)
(* C3: interfaces connected and declared                                   *)
(***************************************************************************)

\* C3 as stated: every interface self.<name> a fragment connects is declared
\* in the interface list, and no name is declared twice.
C3_ConnectedInterfacesDeclaredOnce ==
    Done =>
        /\ \A k \in 1..Len(AllFragments) :
                AllFragments[k].connects \subseteq Range(DeclaredNames)
        /\ \A i, j \in 1..Len(DeclaredNames) :
                i # j => DeclaredNames[i] # DeclaredNames[j]

(***************************************************************************)
(* C4: imports of the instantiated classes                                 *)
(***************************************************************************)

ModuleClasses ==
    {"CV32E40P", "OBIDebugModule", "Minerva", "QSPIFlash", "WishboneSRAM",
     "GPIOPeripheral", "UARTPeripheral", "SPIPeripheral", "I2CPeripheral", "SoCID",
     "WishboneCSRBridge", "SoftwareBuild"}

\* C4 as stated: every module class a fragment instantiates is imported by
\* exactly one line of the whole text.
C4_ClassesImportedExactlyOnce ==
    Done => \A k \in 1..Len(AllFragments) :
                AllFragments[k].cls \in ModuleClasses
                    => ImportCount(AllFragments[k].cls) = 1

(***************************************************************************)
(* C5: no selected block                                                   *)
(***************************************************************************)

\* No entry of the document is selected: both lists are absent, or no entry
\* of the list that is read passes its filter.
NothingSelected(d) ==
    IF d.enabledBlocks.present
    THEN \A k \in 1..Len(d.enabledBlocks.list) : d.enabledBlocks.list[k].type # "digital"
    ELSE \A k \in 1..Len(d.digitalBlocks.list) : d.digitalBlocks.list[k].enabled # "true"

ConditionalSyms == {"csr_spiflash_base", "csr_spi_base", "csr_i2c_base"}

\* C5: for a document of which no entry is selected, the returned text has no
\* CPU block, an empty interface list, no IO fragment, no conditional
\* memory-map entry and one memory instantiation, the SRAM.
C5_EmptyDocumentGivesBaseline ==
    (Done /\ NothingSelected(designData)) =>
        /\ designPy.cpuCode = <<>>
        /\ designPy.interfaces = <<>>
        /\ designPy.ioCode = <<>>
        /\ MapSyms \cap ConditionalSyms = {}
        /\ Len(designPy.memoryCode) = 1
        /\ designPy.memoryCode[1].cls = "WishboneSRAM"
        /\ Len(designPy.memoryMap) > 0

C5_Witness ==
    /\ Done
    /\ NothingSelected(designData)
    /\ designData.enabledBlocks.present
    /\ Len(designData.enabledBlocks.list) > 0
    /\ Len(designData.digitalBlocks.list) > 0
    /\ Len(designPy.memoryCode) = 1

(***************************************************************************)
(* C6: the running SPI index                                               *)
(***************************************************************************)

RECURSIVE SumCounts(_)
SumCounts(blocks) ==
    IF blocks = <<>> THEN 0
    ELSE OrDefault(Head(blocks).count, 1) + SumCounts(Tail(blocks))

\* C6 as stated: with several SPI blocks in the working set, the declared SPI
\* interfaces and the SPI fragments are both spi_0 .. spi_(c1+..+ck-1), in
\* the order of the blocks.
C6_SpiRunningIndex ==
    LET spiBlocks == SelectSeq(digitalBlocks, LAMBDA b : Includes(b.id, KwSpi))
        expected == [i \in 1..SumCounts(spiBlocks) |-> IndexedName(KwSpi, i - 1)]
    IN  (Done /\ Len(spiBlocks) >= 2) =>
            /\ DeclaredOfKind(KwSpi) = expected
            /\ FragmentsOfKind(KwSpi) = expected

(***************************************************************************)
(* C7: the single CPU                                                      *)
(***************************************************************************)

IsProcessorId(id) == Includes(id, KwCv32e40p) \/ Includes(id, KwMinerva)

CpuNames == {"CV32E40P", "OBIDebugModule", "Minerva", "JTAGSignature"}

CpuFragmentCount ==
    Cardinality({ k \in 1..Len(AllFragments) : AllFragments[k].name = <<"c","p","u">> })

\* C7: the text holds at most one CPU fragment; with processor blocks in the
\* working set it is the template of the first of them (cv32e40p: core, debug
\* module, JTAG wiring, the cpu_jtag interface and the CV32E40P, OBIDebugModule
\* and JTAGSignature imports; otherwise minerva: the core and its import), and
\* nothing of the other template; without one there is no CPU text at all.
C7_FirstProcessorIsTheCpu ==
    Done =>
        LET procIdx == { k \in 1..Len(digitalBlocks) : IsProcessorId(digitalBlocks[k].id) }
            classes == [k \in 1..Len(designPy.cpuCode) |-> designPy.cpuCode[k].cls]
            imported == { n \in CpuNames : Imported(n) }
            jtag == { k \in 1..Len(DeclaredNames) : DeclaredNames[k] = <<"c","p","u","_","j","t","a","g">> }
        IN  /\ CpuFragmentCount <= 1
            /\ IF procIdx = {}
               THEN classes = <<>> /\ imported = {} /\ jtag = {}
               ELSE LET first == digitalBlocks[CHOOSE k \in procIdx : \A j \in procIdx : k <= j]
                    IN  IF Includes(first.id, KwCv32e40p)
                        THEN /\ classes = <<"CV32E40P", "OBIDebugModule">>
                             /\ designPy.cpuCode[2].connects = {<<"c","p","u","_","j","t","a","g">>}
                             /\ imported = {"CV32E40P", "OBIDebugModule", "JTAGSignature"}
                             /\ Cardinality(jtag) = 1
                             /\ CpuFragmentCount = 1
                        ELSE /\ classes = <<"Minerva">>
                             /\ imported = {"Minerva"}
                             /\ jtag = {}
                             /\ CpuFragmentCount = 1

C7_Witness ==
    /\ Done
    /\ Len(processors) = 2
    /\ Includes(processors[1].id, KwMinerva)
    /\ Includes(processors[2].id, KwCv32e40p)
    /\ Len(designPy.cpuCode) = 1

(***************************************************************************)
(* C8: the four categories                                                 *)
(***************************************************************************)

Membership(arr, x) == IF ArrIncludes(arr, x) THEN 1 ELSE 0

\* C8 as stated: every block of the working set is in exactly one of
\* processors, memory, io and other, and these hold blocks of the working
\* set only.
C8_CategoriesPartition ==
    Done =>
        /\ \A k \in 1..Len(digitalBlocks) :
                LET b == digitalBlocks[k]
                IN  Membership(processors, b) + Membership(memory, b)
                    + Membership(io, b) + Membership(other, b) = 1
        /\ Range(processors) \cup Range(memory) \cup Range(io) \cup Range(other)
                = Range(digitalBlocks)

(***************************************************************************)
(* C9: block selection                                                     *)
(***************************************************************************)

\* The entries of a list with a given value of a field, in list order.
RECURSIVE EntriesWith(_, _, _)
EntriesWith(list, field, value) ==
    IF list = <<>> THEN <<>>
    ELSE LET last == list[Len(list)]
             front == EntriesWith(SubSeq(list, 1, Len(list) - 1), field, value)
         IN  IF last[field] = value THEN Append(front, last) ELSE front

\* C9: the working set is the entries of enabledBlocks of type "digital" when
\* enabledBlocks is present, also as an empty list, and otherwise the entries
\* of digitalBlocks with enabled true; no entry of the other list is in it.
C9_OneShapeSelected ==
    Done =>
        IF designData.enabledBlocks.present
        THEN /\ digitalBlocks = EntriesWith(designData.enabledBlocks.list, "type", "digital")
             /\ \A k \in 1..Len(digitalBlocks) :
                    ~ArrIncludes(designData.digitalBlocks.list, digitalBlocks[k])
        ELSE /\ digitalBlocks = EntriesWith(designData.digitalBlocks.list, "enabled", "true")

C9_Witness ==
    /\ Done
    /\ designData.enabledBlocks.present
    /\ designData.digitalBlocks.present
    /\ \E k \in 1..Len(designData.digitalBlocks.list) :
            designData.digitalBlocks.list[k].enabled = "true"
    /\ Len(digitalBlocks) = 1

(***************************************************************************)
(* C10: memory-map symbols read by the fragments                           *)
(***************************************************************************)

\* C10: every memory-map symbol a fragment of the text reads is assigned in
\* the memory map of the text.
C10_UsedSymbolsAssigned ==
    Done => \A k \in 1..Len(AllFragments) : AllFragments[k].uses \subseteq MapSyms

C10_Witness ==
    /\ Done
    /\ \E k \in 1..Len(AllFragments) : "csr_spiflash_base" \in AllFragments[k].uses
    /\ \E k \in 1..Len(AllFragments) : "csr_spi_base" \in AllFragments[k].uses
    /\ \E k \in 1..Len(AllFragments) : "csr_i2c_base" \in AllFragments[k].uses
====
